---- MODULE Spec2Model ----
(***************************************************************************)
(* A model of brokkoly's dispatch-and-delivery path:                       *)
(*   Producer.on_post        (src/brokkoly/__init__.py)                    *)
(*   Brokkoly.task.wrapper.handle, the function Celery runs in a worker    *)
(*   the retry policies      (src/brokkoly/retry.py)                       *)
(* The database module (brokkoly.database) and Celery are collaborators    *)
(* whose code is not part of the modelled sources: their operations are    *)
(* modelled by their contract.                                             *)
(***************************************************************************)
EXTENDS Integers, Sequences, FiniteSets, TLC

VARIABLES
    tasks,      \* _tasks: queue name -> task name -> registered task
    log,        \* committed rows of the message log: id -> row
    nextId,     \* the autoincrement counter of the message log
    conn,       \* the thread-local connection of each thread
    msgs,       \* what the broker knows of each submitted message: id -> record
    posts,      \* number of accepted submissions so far
    last,       \* the outcome of the operation that ran last
    brokkolys   \* the queue name of each Brokkoly instance, in order of construction

vars == <<tasks, log, nextId, conn, msgs, posts, last, brokkolys>>

---------------------------------------------------------------------------
(* Bounds of the model.                                                    *)

\* accepted submissions in one behaviour
MaxPosts == 1
\* a task body fails on its first k attempts, k in 0..MaxFails
MaxFails == 3

---------------------------------------------------------------------------
(* Values.  A JSON scalar is a record [t, v]: its Python type and an index *)
(* standing for its content.                                               *)

\* max_wait_seconds=None, the default of both policies' constructors
None == -1

IntV(n) == [t |-> "int", v |-> n]
StrV(n) == [t |-> "str", v |-> n]

\* isinstance(value, arg_type), for the types the schemas of the model use
IsInstance(value, arg_type) == value.t = arg_type

EmptyMessage == [n \in {} |-> IntV(0)]

---------------------------------------------------------------------------
(* Retry policies (src/brokkoly/retry.py).                                 *)

NoPolicy == [kind |-> "none", max_retries |-> 0, max_wait_seconds |-> None]
FibonacciBackoff(m, c) == [kind |-> "fib", max_retries |-> m, max_wait_seconds |-> c]
ExponentialBackoff(m, c) == [kind |-> "exp", max_retries |-> m, max_wait_seconds |-> c]

\* a value returned by countdown, or the TypeError it raised
Returned(n) == [raised |-> FALSE, value |-> n]
RaisedTypeError == [raised |-> TRUE, value |-> 0]

RECURSIVE FibLoop(_, _, _, _)
\* the for loop of FibonacciBackoff.countdown with `left` iterations to go
FibLoop(x, y, left, c) ==
    IF left = 0 THEN y
    ELSE IF c # None /\ x + y >= c THEN c
    ELSE FibLoop(y, x + y, left - 1, c)

FibonacciCountdown(policy, retry_count) ==
    Returned(FibLoop(1, 1, retry_count, policy.max_wait_seconds))

\* pow(2, retry_count + 1), then `None < wait` raises TypeError in Python 3
ExponentialCountdown(policy, retry_count) ==
    LET wait == 2 ^ (retry_count + 1)
    IN  IF policy.max_wait_seconds = None THEN RaisedTypeError
        ELSE IF policy.max_wait_seconds < wait THEN Returned(wait)
        ELSE Returned(policy.max_wait_seconds)

\* retry_policy.countdown(retry_count, error)
Countdown(policy, retry_count) ==
    IF policy.kind = "fib" THEN FibonacciCountdown(policy, retry_count)
    ELSE ExponentialCountdown(policy, retry_count)

---------------------------------------------------------------------------
(* Validation and the preprocessor chain.                                  *)

\* the outcome of a step that may raise
Ok(m) == [ok |-> TRUE, message |-> m, error |-> "none", arg_name |-> "", arg_type |-> ""]
\* an error with its title, and the name and the type its description gives
ErrAt(e, arg_name, arg_type) ==
    [ok |-> FALSE, message |-> EmptyMessage, error |-> e,
     arg_name |-> arg_name, arg_type |-> arg_type]
Err(e) == ErrAt(e, "", "")

RECURSIVE ValidateLoop_ReportsLast(_, _, _, _)
\* _validate going on after a failure and reporting the last one it meets
ValidateLoop_ReportsLast(message, validation, i, validated) ==
    IF i > Len(validation) THEN Ok(validated)
    ELSE LET arg_name == validation[i][1]
             arg_type == validation[i][2]
             here == IF arg_name \notin DOMAIN message
                         THEN ErrAt("Missing required filed", arg_name, "")
                     ELSE IF arg_type # "any" /\ ~IsInstance(message[arg_name], arg_type)
                         THEN ErrAt("Invalid type", arg_name, arg_type)
                     ELSE Ok(validated)
             rest == ValidateLoop_ReportsLast(message, validation, i + 1,
                        IF here.ok
                        THEN [n \in (DOMAIN validated) \cup {arg_name} |->
                                IF n = arg_name THEN message[arg_name] ELSE validated[n]]
                        ELSE validated)
         IN  IF ~rest.ok THEN rest ELSE IF ~here.ok THEN here ELSE rest

RECURSIVE ValidateLoop(_, _, _, _)
\* the for loop of _validate from schema entry i on
ValidateLoop(message, validation, i, validated) ==
    IF i > Len(validation) THEN Ok(validated)
    ELSE LET arg_name == validation[i][1]
             arg_type == validation[i][2]
         IN  IF arg_name \notin DOMAIN message
                 THEN ErrAt("Missing required filed", arg_name, "")
             ELSE IF arg_type # "any" /\ ~IsInstance(message[arg_name], arg_type)
                 THEN ErrAt("Invalid type", arg_name, arg_type)
             ELSE ValidateLoop(message, validation, i + 1,
                     [n \in (DOMAIN validated) \cup {arg_name} |->
                         IF n = arg_name THEN message[arg_name] ELSE validated[n]])

\* _validate returning the message itself once every check has passed
_validate_KeepsExtra(message, validation) ==
    IF ValidateLoop(message, validation, 1, EmptyMessage).ok THEN Ok(message)
    ELSE ValidateLoop(message, validation, 1, EmptyMessage)

_validate(message, validation) == ValidateLoop(message, validation, 1, EmptyMessage)

\* the functions of the model, as inspect.getfullargspec sees them: the
\* parameters in order, each with its annotation ("none" when it has none)
Signature(f) ==
    CASE f = "task_for_test" -> << <<"text", "str">>, <<"number", "int">> >>
      [] f = "task_for_preprocessor_test" -> << <<"text", "str">> >>
      [] f = "number_to_text" -> << <<"number", "int">> >>
      [] f = "text_to_number" -> << <<"text", "str">> >>
      [] f = "preprocessor_raises" -> << <<"number", "none">> >>
      [] OTHER -> << >>

_prepare_validation(f) ==
    [i \in 1..Len(Signature(f)) |->
        <<Signature(f)[i][1],
          IF Signature(f)[i][2] = "none" THEN "any" ELSE Signature(f)[i][2]>>]

\* preprocess(**validated): what the preprocessors of the model do
CallPreprocessor(f, validated) ==
    CASE f = "number_to_text" -> Ok([n \in {"text"} |-> StrV(validated["number"].v)])
      [] f = "text_to_number" ->
            Ok([n \in {"number", "extra"} |->
                  IF n = "number" THEN IntV(validated["text"].v) ELSE validated["text"]])
      [] f = "preprocessor_raises" -> Err("PreprocessorError")
      [] OTHER -> Ok(validated)

\* the outcome of the chain with the calls of preprocessors made so far
WithCalls(r, calls) ==
    [ok |-> r.ok, message |-> r.message, error |-> r.error,
     arg_name |-> r.arg_name, arg_type |-> r.arg_type, calls |-> calls]

RECURSIVE RecurseCalls_SameInput(_, _, _)
\* _recurse handing the message it was given to the rest of the chain
\* instead of the preprocessor's return value
RecurseCalls_SameInput(message, preprocessors, calls) ==
    IF preprocessors # << >>
    THEN LET preprocess == Head(preprocessors).func
             checked == _validate(message, Head(preprocessors).validation)
             called == Append(calls, [func |-> preprocess, args |-> checked.message])
         IN  IF ~checked.ok THEN WithCalls(checked, calls)
             ELSE LET out == CallPreprocessor(preprocess, checked.message)
                  IN  IF ~out.ok THEN WithCalls(out, called)
                      ELSE RecurseCalls_SameInput(message, Tail(preprocessors), called)
    ELSE WithCalls(Ok(message), calls)

RECURSIVE RecurseCalls(_, _, _)
\* Producer._recurse, with the calls of preprocessors made before this level
RecurseCalls(message, preprocessors, calls) ==
    IF preprocessors # << >>
    THEN LET preprocess == Head(preprocessors).func
             checked == _validate(message, Head(preprocessors).validation)
             called == Append(calls, [func |-> preprocess, args |-> checked.message])
         IN  IF ~checked.ok THEN WithCalls(checked, calls)
             ELSE LET out == CallPreprocessor(preprocess, checked.message)
                  IN  IF ~out.ok THEN WithCalls(out, called)
                      ELSE RecurseCalls(out.message, Tail(preprocessors), called)
    ELSE WithCalls(Ok(message), calls)

_recurse(message, preprocessors) == RecurseCalls(message, preprocessors, << >>)

---------------------------------------------------------------------------
(* The registry (_tasks) and registration.                                 *)

\* queue names are sequences of characters
TestQueue == <<"t", "e", "s", "t">>
UndefinedQueue == <<"u", "n", "d", "e", "f">>

\* name.startswith('_')
StartsWithUnderscore(name) == Len(name) >= 1 /\ name[1] = "_"

NoTasks == [t \in {} |-> 0]

\* __init__ reading _tasks[name] before it looks at the name
BrokkolyInit_CreatesQueueFirst(reg, name) ==
    [raised |-> StartsWithUnderscore(name),
     reg |-> IF name \in DOMAIN reg THEN reg
             ELSE [q \in (DOMAIN reg) \cup {name} |->
                      IF q = name THEN NoTasks ELSE reg[q]]]

\* Brokkoly.__init__: _tasks[name] on the defaultdict creates the queue
BrokkolyInit(reg, name) ==
    IF StartsWithUnderscore(name) THEN [raised |-> TRUE, reg |-> reg]
    ELSE IF name \in DOMAIN reg THEN [raised |-> FALSE, reg |-> reg]
    ELSE [raised |-> FALSE,
          reg |-> [q \in (DOMAIN reg) \cup {name} |->
                      IF q = name THEN NoTasks ELSE reg[q]]]

\* a Brokkoly instance: its queue name and its Celery application
Brokkoly(name, celery) == [name |-> name, celery |-> celery]

\* wrapper storing the task without looking for an earlier registration
TaskWrapper_Overwrites(reg, self, f, preprocessors, retry_policy) ==
    [raised |-> f \in DOMAIN reg[self.name],
     reg |-> [reg EXCEPT ![self.name] =
         [t \in (DOMAIN reg[self.name]) \cup {f} |->
             IF t = f
             THEN [celery |-> self.celery,
                   validation |-> _prepare_validation(f),
                   preprocessors |->
                       [i \in 1..Len(preprocessors) |->
                           [func |-> preprocessors[i],
                            validation |-> _prepare_validation(preprocessors[i])]],
                   retry_policy |-> retry_policy]
             ELSE reg[self.name][t]]]]

\* Brokkoly.task(*preprocessors, retry_policy)(f) of the instance `self`;
\* self._tasks is _tasks[self.name], the stored handler is a task of self.celery
TaskWrapper(reg, self, f, preprocessors, retry_policy) ==
    IF f \in DOMAIN reg[self.name] THEN [raised |-> TRUE, reg |-> reg]
    ELSE [raised |-> FALSE,
          reg |-> [reg EXCEPT ![self.name] =
              [t \in (DOMAIN reg[self.name]) \cup {f} |->
                  IF t = f
                  THEN [celery |-> self.celery,
                        validation |-> _prepare_validation(f),
                        preprocessors |->
                            [i \in 1..Len(preprocessors) |->
                                [func |-> preprocessors[i],
                                 validation |-> _prepare_validation(preprocessors[i])]],
                        retry_policy |-> retry_policy]
                  ELSE reg[self.name][t]]]]

\* the registrations of the worker/producer module of the model, in order
Registrations ==
    << [f |-> "task_for_test", pre |-> << >>, policy |-> NoPolicy],
       [f |-> "task_for_preprocessor_test", pre |-> <<"number_to_text">>,
        policy |-> NoPolicy],
       [f |-> "task_pre_raises", pre |-> <<"preprocessor_raises">>, policy |-> NoPolicy],
       [f |-> "task_fib1", pre |-> << >>, policy |-> FibonacciBackoff(1, None)],
       [f |-> "task_fib2", pre |-> << >>, policy |-> FibonacciBackoff(2, 2)],
       [f |-> "task_exp1", pre |-> << >>, policy |-> ExponentialBackoff(1, None)],
       [f |-> "task_exp2", pre |-> << >>, policy |-> ExponentialBackoff(2, None)],
       [f |-> "task_exp2c", pre |-> << >>, policy |-> ExponentialBackoff(2, 5)] >>

RECURSIVE RegisterAll(_, _, _)
RegisterAll(reg, name, i) ==
    IF i > Len(Registrations) THEN reg
    ELSE RegisterAll(
            TaskWrapper(reg, Brokkoly(name, 1), Registrations[i].f, Registrations[i].pre,
                        Registrations[i].policy).reg,
            name, i + 1)

\* _tasks once the module defining the tasks has been imported
StartupRegistry ==
    RegisterAll(BrokkolyInit([q \in {} |-> NoTasks], TestQueue).reg, TestQueue, 1)

---------------------------------------------------------------------------
(* The message log (brokkoly.database), by its contract: a connection      *)
(* works on a view of the table; commit makes the view durable, rollback   *)
(* and close discard what was not committed.                               *)

\* rows kept per (queue, task) by MessageLog.eliminate: more than a
\* behaviour of the model ever submits
KeepCount == MaxPosts + 2

NoRows == [i \in {} |-> 0]

\* json.dumps(message): the text, as the set of its "key": value members
Dumps(message) == {<<n, message[n].t, message[n].v>> : n \in DOMAIN message}

\* json.loads of such a text
Loads(text) ==
    [n \in {m[1] : m \in text} |->
        LET m == CHOOSE m \in text : m[1] = n IN [t |-> m[2], v |-> m[3]]]

\* MessageLog.create(queue_name, task_name, message): INSERT, the row's id
MessageLogCreate(db, queue_name, task_name, text) ==
    [rows |-> [i \in (DOMAIN db.rows) \cup {db.next} |->
                  IF i = db.next
                  THEN [queue_name |-> queue_name, task_name |-> task_name,
                        message |-> text, completed |-> FALSE]
                  ELSE db.rows[i]],
     next |-> db.next + 1]

\* message_log.complete(): sets completed_at of the row
MessageLogComplete(db, id) ==
    IF id \in DOMAIN db.rows
    THEN [db EXCEPT !.rows[id].completed = TRUE]
    ELSE db

\* MessageLog.eliminate(queue_name, task_name): drops the oldest rows of the
\* pair beyond the newest KeepCount
MessageLogEliminate(db, queue_name, task_name) ==
    LET mine == {i \in DOMAIN db.rows :
                    db.rows[i].queue_name = queue_name /\ db.rows[i].task_name = task_name}
        kept == {i \in mine : Cardinality({j \in mine : j > i}) < KeepCount}
    IN  [db EXCEPT !.rows = [i \in (DOMAIN db.rows) \ (mine \ kept) |-> db.rows[i]]]

---------------------------------------------------------------------------
(* Producer.on_post.                                                       *)

\* what the operations of Producer raise or return: the error's title
\* ("none" when the step returned), the calls made so far, the connection's
\* view of the message log, and what was handed to apply_async
NoSubmission == [id |-> 0, args |-> EmptyMessage, countdown |-> 0]
Rejected(error, events, db) ==
    [error |-> error, events |-> events, db |-> db,
     submitted |-> FALSE, submission |-> NoSubmission, eliminated |-> << >>]

\* _tasks[name] on the defaultdict: a missing key is inserted with an empty
\* dict before its value is returned
DefaultDictGet(reg, name) ==
    IF name \in DOMAIN reg THEN [value |-> reg[name], reg |-> reg]
    ELSE [value |-> NoTasks,
          reg |-> [q \in (DOMAIN reg) \cup {name} |->
                      IF q = name THEN NoTasks ELSE reg[q]]]

\* what a lookup raised (its title) and the registry it leaves
Looked(error, reg) == [error |-> error, reg |-> reg]

\* the lookup subscripting _tasks without asking whether the queue is in it
_validate_queue_and_task_Subscripts(reg, queue_name, task_name) ==
    LET queue_tasks == DefaultDictGet(reg, queue_name)
    IN  IF task_name \notin DOMAIN queue_tasks.value
        THEN Looked("Undefined task", queue_tasks.reg)
        ELSE Looked("none", queue_tasks.reg)

\* Producer._validate_queue_and_task, lines 180-188
_validate_queue_and_task(reg, queue_name, task_name) ==
    IF queue_name \notin DOMAIN reg THEN Looked("Undefined queue", reg)
    ELSE LET queue_tasks == DefaultDictGet(reg, queue_name)
         IN  IF task_name \notin DOMAIN queue_tasks.value
             THEN Looked("Undefined task", queue_tasks.reg)
             ELSE Looked("none", queue_tasks.reg)

\* TaskListResource._list_task_name: the names, or KeyError
_list_task_name(reg, queue_name) ==
    IF queue_name \in DOMAIN reg
    THEN [raised |-> FALSE, task_names |-> DOMAIN DefaultDictGet(reg, queue_name).value,
          reg |-> DefaultDictGet(reg, queue_name).reg]
    ELSE [raised |-> TRUE, task_names |-> {}, reg |-> reg]

\* QueueListResource._list_queue_name: the keys of _tasks (as a set: sorted()
\* only orders them)
_list_queue_name(reg) == [queue_names |-> DOMAIN reg, reg |-> reg]

\* req.stream.read().decode() and json.loads
_validate_payload(payload) ==
    IF payload.kind = "empty" THEN "Empty payload"
    ELSE IF payload.kind = "notjson" THEN "Payload is not a JSON"
    ELSE "none"

\* on_post with MessageLog.eliminate called before task.apply_async
SubmitMessage_EliminateFirst(entry, db, queue_name, task_name, json) ==
    LET message == json.message
        created == MessageLogCreate(db, queue_name, task_name, Dumps(message))
        message_log_id == db.next
        folded == _recurse(message, entry.preprocessors)
        args == IF folded.ok THEN _validate(folded.message, entry.validation) ELSE folded
    IN  IF ~args.ok
        THEN Rejected(args.error, <<"read", "create", "eliminate">>,
                      MessageLogEliminate(created, queue_name, task_name))
        ELSE [error |-> "none",
              events |-> <<"read", "create", "eliminate", "apply_async", "ack">>,
              db |-> MessageLogEliminate(created, queue_name, task_name),
              submitted |-> TRUE,
              submission |-> [id |-> message_log_id, args |-> args.message,
                              countdown |-> IF json.hasDelay THEN json.delay ELSE 0],
              eliminated |-> <<queue_name, task_name>>]

\* on_post recording the processed message in the log instead of the original
SubmitMessage_LogsProcessed(entry, db, queue_name, task_name, json) ==
    LET message == json.message
        message_log_id == db.next
        folded == _recurse(message, entry.preprocessors)
        args == IF folded.ok THEN _validate(folded.message, entry.validation) ELSE folded
        created == MessageLogCreate(db, queue_name, task_name, Dumps(args.message))
    IN  IF ~args.ok
        THEN Rejected(args.error, <<"read", "create">>, created)
        ELSE [error |-> "none",
              events |-> <<"read", "create", "apply_async", "eliminate", "ack">>,
              db |-> MessageLogEliminate(created, queue_name, task_name),
              submitted |-> TRUE,
              submission |-> [id |-> message_log_id, args |-> args.message,
                              countdown |-> IF json.hasDelay THEN json.delay ELSE 0],
              eliminated |-> <<queue_name, task_name>>]

\* lines 214-229 of on_post: create, apply_async (whose kwargs are evaluated
\* before the call: _recurse, _validate, then payload.get('delay', 0)),
\* eliminate, resp.status
SubmitMessage(entry, db, queue_name, task_name, json) ==
    LET message == json.message
        created == MessageLogCreate(db, queue_name, task_name, Dumps(message))
        message_log_id == db.next
        folded == _recurse(message, entry.preprocessors)
        args == IF folded.ok THEN _validate(folded.message, entry.validation) ELSE folded
    IN  IF ~args.ok
        THEN Rejected(args.error, <<"read", "create">>, created)
        ELSE [error |-> "none",
              events |-> <<"read", "create", "apply_async", "eliminate", "ack">>,
              db |-> MessageLogEliminate(created, queue_name, task_name),
              submitted |-> TRUE,
              submission |-> [id |-> message_log_id, args |-> args.message,
                              countdown |-> IF json.hasDelay THEN json.delay ELSE 0],
              eliminated |-> <<queue_name, task_name>>]

\* on_post reading the payload before it looks the queue and the task up
on_post_ReadsPayloadFirst(reg, db, queue_name, task_name, payload) ==
    LET looked == _validate_queue_and_task(reg, queue_name, task_name).error
        read == _validate_payload(payload)
    IN  IF read # "none" THEN Rejected(read, <<"read">>, db)
        ELSE IF looked # "none" THEN Rejected(looked, <<"read">>, db)
        ELSE IF payload.json.type # "object" THEN Rejected("TypeError", <<"read">>, db)
        ELSE IF ~payload.json.hasMessage THEN Rejected("Invalid JSON", <<"read">>, db)
        ELSE SubmitMessage(reg[queue_name][task_name], db, queue_name, task_name,
                           payload.json)

on_post(reg, db, queue_name, task_name, payload) ==
    LET looked == _validate_queue_and_task(reg, queue_name, task_name).error
        read == _validate_payload(payload)
    IN  IF looked # "none" THEN Rejected(looked, << >>, db)
        ELSE IF read # "none" THEN Rejected(read, <<"read">>, db)
        \* payload['message'] on a list, a string, a number or None
        ELSE IF payload.json.type # "object" THEN Rejected("TypeError", <<"read">>, db)
        ELSE IF ~payload.json.hasMessage THEN Rejected("Invalid JSON", <<"read">>, db)
        ELSE SubmitMessage(reg[queue_name][task_name], db, queue_name, task_name,
                           payload.json)

\* what process_response did: the calls it made on the connection, those of
\* them that returned, and the exception that left process_response
Responded(calls, done, raised) == [calls |-> calls, done |-> done, raised |-> raised]

\* process_response without the except clause of the failure path
DBManager_process_response_Propagates(connection, req_succeeded, raising) ==
    IF connection = "none" THEN Responded(<< >>, << >>, "none")
    ELSE LET first == IF req_succeeded THEN "commit" ELSE "rollback"
         IN  IF first \in raising
             THEN Responded(<<first>>, << >>, "ProgrammingError")
             ELSE IF "close" \in raising
             THEN Responded(<<first, "close">>, <<first>>, "ProgrammingError")
             ELSE Responded(<<first, "close">>, <<first, "close">>, "none")

\* DBManager.process_response(req, resp, resource, req_succeeded) on a thread
\* whose connection_manager.get() gives `connection`; the calls in `raising`
\* raise sqlite3.ProgrammingError
DBManager_process_response(connection, req_succeeded, raising) ==
    IF connection = "none" THEN Responded(<< >>, << >>, "none")
    ELSE IF req_succeeded
    THEN IF "commit" \in raising
         THEN Responded(<<"commit">>, << >>, "ProgrammingError")
         ELSE IF "close" \in raising
         THEN Responded(<<"commit", "close">>, <<"commit">>, "ProgrammingError")
         ELSE Responded(<<"commit", "close">>, <<"commit", "close">>, "none")
    ELSE IF "rollback" \in raising
         THEN Responded(<<"rollback">>, << >>, "none")
         ELSE IF "close" \in raising
         THEN Responded(<<"rollback", "close">>, <<"rollback">>, "none")
         ELSE Responded(<<"rollback", "close">>, <<"rollback", "close">>, "none")

\* DBManager.process_response when no call on the connection raises: the
\* calls it makes
process_response(connection, req_succeeded) ==
    DBManager_process_response(connection, req_succeeded, {}).calls

\* DBManager.process_resource: the calls it makes on the connection manager
process_resource == <<"reconnect">>

---------------------------------------------------------------------------
(* The effect of a handler's calls on the database and on the thread's     *)
(* connection.                                                             *)

RECURSIVE ApplyEvents(_, _, _, _)
\* st = [durable, view, conn]: the committed table, the connection's view of
\* it, the state of the thread-local connection
ApplyEvents(events, i, id, st) ==
    IF i > Len(events) THEN st
    ELSE LET e == events[i]
             nxt == CASE e = "reconnect" ->
                            [st EXCEPT !.conn = "open", !.view = st.durable]
                      [] e = "complete" ->
                            [st EXCEPT !.view = MessageLogComplete(st.view, id)]
                      [] e = "commit" -> [st EXCEPT !.durable = st.view]
                      [] e = "rollback" -> [st EXCEPT !.view = st.durable]
                      [] e = "close" ->
                            [st EXCEPT !.conn = "closed", !.view = st.durable]
                      [] OTHER -> st
         IN  ApplyEvents(events, i + 1, id, nxt)

Count(events, e) == Cardinality({i \in 1..Len(events) : events[i] = e})

---------------------------------------------------------------------------
(* Brokkoly.task.wrapper.handle.                                           *)

\* celery_task.retry(countdown=, max_retries=, exc=) of Celery's Task: raises
\* Retry when the task is rescheduled, raises exc when request.retries + 1
\* exceeds max_retries
CeleryRetry(retries, max_retries) ==
    IF retries + 1 > max_retries THEN "exhausted" ELSE "accepted"

NoCall == << >>

\* handle fetching the connection before it reconnects
HandleEntry_GetsFirst == <<"get", "reconnect", "get_by_id", "f">>

\* lines 80-84: reconnect, get, MessageLog.get_by_id, f(**args)
HandleEntry == <<"reconnect", "get", "get_by_id", "f">>

\* lines 85-87 and 93: f returned
HandleSuccess ==
    [events |-> HandleEntry \o <<"complete", "commit", "close">>,
     outcome |-> "return", error |-> "none", retry_calls |-> NoCall,
     broker |-> "not_called"]

\* the no-policy path asking the broker to retry and closing the log entry
HandleNoPolicy_Retries ==
    [events |-> HandleEntry \o <<"retry", "complete", "commit", "close">>,
     outcome |-> "raise", error |-> "TaskError",
     retry_calls |-> <<[countdown |-> 0, max_retries |-> 0, exc |-> "TaskError"]>>,
     broker |-> "exhausted"]

\* lines 88-90: f raised and retry_policy is None
HandleNoPolicy ==
    [events |-> HandleEntry,
     outcome |-> "raise", error |-> "TaskError", retry_calls |-> NoCall,
     broker |-> "not_called"]

\* the accepted-retry path marking the log entry completed before re-raising
HandleRetryAccepted_Completes(call) ==
    [events |-> HandleEntry \o <<"retry", "complete", "commit", "close">>,
     outcome |-> "raise", error |-> "Retry", retry_calls |-> <<call>>,
     broker |-> "accepted"]

\* lines 101-103: celery_task.retry raised Retry
HandleRetryAccepted(call) ==
    [events |-> HandleEntry \o <<"retry", "close">>,
     outcome |-> "raise", error |-> "Retry", retry_calls |-> <<call>>,
     broker |-> "accepted"]

\* lines 104-105, 108-109: something else than Retry was raised in the try
\* block, by celery_task.retry or while its arguments were evaluated
HandleRetryRaised(calls, broker) ==
    [events |-> HandleEntry \o [i \in 1..Len(calls) |-> "retry"]
                    \o <<"complete", "commit", "close">>,
     outcome |-> "return", error |-> "none", retry_calls |-> calls,
     broker |-> broker]

\* lines 106-109: celery_task.retry returned
HandleRetryReturned(call) ==
    [events |-> HandleEntry \o <<"retry", "complete", "commit", "close">>,
     outcome |-> "return", error |-> "none", retry_calls |-> <<call>>,
     broker |-> "returned"]

\* lines 95-109: f raised and there is a retry policy
HandleRetry(retry_policy, retries) ==
    LET countdown == Countdown(retry_policy, retries)
        call == [countdown |-> countdown.value,
                 max_retries |-> retry_policy.max_retries, exc |-> "TaskError"]
        answer == CeleryRetry(retries, retry_policy.max_retries)
    IN  IF countdown.raised THEN HandleRetryRaised(NoCall, "not_called")
        ELSE CASE answer = "accepted" -> HandleRetryAccepted(call)
               [] answer = "exhausted" -> HandleRetryRaised(<<call>>, "exhausted")
               [] OTHER -> HandleRetryReturned(call)

handle(retry_policy, retries, body_raises) ==
    IF ~body_raises THEN HandleSuccess
    ELSE IF retry_policy.kind = "none" THEN HandleNoPolicy
    ELSE HandleRetry(retry_policy, retries)

---------------------------------------------------------------------------
(* The inputs of the model.                                                *)

NumberOnly == [n \in {"number"} |-> IntV(1)]
TextAndNumber == [n \in {"text", "number"} |-> IF n = "text" THEN StrV(1) ELSE IntV(1)]
TextAsInt == [n \in {"text", "number"} |-> IntV(1)]

JsonObject(hasMessage, message, hasDelay, delay) ==
    [type |-> "object", hasMessage |-> hasMessage, message |-> message,
     hasDelay |-> hasDelay, delay |-> delay]
JsonOther(type) ==
    [type |-> type, hasMessage |-> FALSE, message |-> EmptyMessage,
     hasDelay |-> FALSE, delay |-> 0]

Payload(kind, json) == [kind |-> kind, json |-> json]
Message(message) == Payload("json", JsonObject(TRUE, message, FALSE, 0))
Request(queue_name, task_name, payload) ==
    [queue_name |-> queue_name, task_name |-> task_name, payload |-> payload]

\* the request bodies sent to the producer
Payloads ==
    {Payload("empty", JsonOther("null")),
     Payload("notjson", JsonOther("null")),
     Payload("json", JsonOther("array")),
     Payload("json", JsonOther("string")),
     Payload("json", JsonOther("number")),
     Payload("json", JsonOther("null")),
     Payload("json", JsonObject(FALSE, EmptyMessage, FALSE, 0)),
     Message(EmptyMessage),
     Message(NumberOnly),
     Payload("json", JsonObject(TRUE, TextAndNumber, TRUE, 1)),
     Message(TextAsInt)}

\* the requests sent to the producer: every body to the task of the tests,
\* and to the other tasks the messages that tell their outcomes apart
Requests ==
    {Request(q, t, p) :
        q \in {UndefinedQueue}, t \in {"undefined_task", "task_for_test"},
        p \in {Message(EmptyMessage), Payload("empty", JsonOther("null"))}}
    \cup {Request(TestQueue, "undefined_task", p) :
            p \in {Message(EmptyMessage), Payload("empty", JsonOther("null")),
                    Payload("notjson", JsonOther("null"))}}
    \cup {Request(TestQueue, "task_for_test", p) : p \in Payloads}
    \cup {Request(TestQueue, "task_for_preprocessor_test", Message(m)) :
            m \in {EmptyMessage, NumberOnly, TextAsInt}}
    \cup {Request(TestQueue, "task_pre_raises", Message(m)) :
            m \in {EmptyMessage, NumberOnly}}
    \cup {Request(TestQueue, t, Message(EmptyMessage)) :
            t \in {"task_fib1", "task_fib2", "task_exp1", "task_exp2", "task_exp2c"}}
    \cup {Request(TestQueue, t,
                   Payload("json", JsonObject(TRUE, TextAndNumber, TRUE, 1))) :
            t \in {"task_fib1", "task_exp2c"}}

Threads == {"web", "worker"}

---------------------------------------------------------------------------
(* The state machine.                                                      *)

NoMessages == [i \in {} |-> 0]

Init ==
    /\ tasks = StartupRegistry
    /\ log = NoRows
    /\ nextId = 1
    /\ conn = [t \in Threads |-> "none"]
    /\ msgs = NoMessages
    /\ posts = 0
    /\ last = [op |-> "none"]
    /\ brokkolys = <<TestQueue>>

RetryPolicyOf(id) == tasks[msgs[id].queue_name][msgs[id].task_name].retry_policy

\* One HTTP POST /{queue_name}/{task_name}, through the DBManager middleware:
\* process_resource (reconnect), Producer.on_post, process_response.  `fails`
\* is the number of attempts on which the body of the task will raise for
\* this message.
Post(queue_name, task_name, payload, fails) ==
    /\ posts < MaxPosts
    /\ fails = 0 \/ on_post(tasks, [rows |-> log, next |-> nextId],
                            queue_name, task_name, payload).submitted
    /\ LET r == on_post(tasks, [rows |-> log, next |-> nextId],
                        queue_name, task_name, payload)
           entry == ApplyEvents(process_resource, 1, 0,
                    [durable |-> [rows |-> log, next |-> nextId],
                     view |-> [rows |-> log, next |-> nextId], conn |-> conn["web"]])
           response == process_response(entry.conn, r.error = "none")
           st == ApplyEvents(response, 1, 0,
                    [durable |-> [rows |-> log, next |-> nextId],
                     view |-> r.db, conn |-> entry.conn])
           id == r.submission.id
       IN  /\ log' = st.durable.rows
           /\ nextId' = st.durable.next
           /\ conn' = [conn EXCEPT !["web"] = st.conn]
           /\ msgs' = IF r.submitted
                      THEN [i \in (DOMAIN msgs) \cup {id} |->
                              IF i = id
                              THEN [queue_name |-> queue_name, task_name |-> task_name,
                                    args |-> r.submission.args,
                                    countdown |-> r.submission.countdown,
                                    fails |-> fails, retries |-> 0,
                                    state |-> "queued", complete_at |-> << >>]
                              ELSE msgs[i]]
                      ELSE msgs
           /\ posts' = IF r.submitted THEN posts + 1 ELSE posts
           /\ last' = [op |-> "post", queue_name |-> queue_name,
                       task_name |-> task_name,
                       body |-> [kind |-> payload.kind, type |-> payload.json.type,
                                 hasMessage |-> payload.json.hasMessage,
                                 hasDelay |-> payload.json.hasDelay,
                                 delay |-> payload.json.delay],
                       message |-> IF r.submitted THEN payload.json.message
                                   ELSE EmptyMessage,
                       error |-> r.error, events |-> r.events,
                       entered |-> conn["web"], resource |-> process_resource,
                       response |-> response, submitted |-> r.submitted,
                       submission |-> r.submission, eliminated |-> r.eliminated,
                       created |-> (DOMAIN r.db.rows) \ (DOMAIN log)]
    /\ tasks' = _validate_queue_and_task(tasks, queue_name, task_name).reg
    /\ UNCHANGED brokkolys

\* The broker runs handle(celery_task, meta, args) for a message it holds, in
\* the worker thread; celery_task.request.retries is the number of retries
\* done so far.
Deliver(id) ==
    /\ msgs[id].state = "queued"
    /\ LET m == msgs[id]
           body_raises == m.retries < m.fails
           r == handle(RetryPolicyOf(id), m.retries, body_raises)
           st == ApplyEvents(r.events, 1, id,
                    [durable |-> [rows |-> log, next |-> nextId],
                     view |-> [rows |-> log, next |-> nextId],
                     conn |-> conn["worker"]])
       IN  /\ log' = st.durable.rows
           /\ nextId' = st.durable.next
           /\ conn' = [conn EXCEPT !["worker"] = st.conn]
           /\ msgs' = [msgs EXCEPT ![id] =
                        [m EXCEPT
                          !.retries = IF r.error = "Retry" THEN m.retries + 1
                                      ELSE m.retries,
                          !.state = IF r.error = "Retry" THEN "queued"
                                    ELSE IF r.outcome = "return" THEN "succeeded"
                                    ELSE "failed",
                          !.complete_at =
                              m.complete_at \o
                                  [i \in 1..Count(r.events, "complete") |-> m.retries]]]
           /\ last' = [op |-> "handle", id |-> id, attempt |-> m.retries,
                       entered |-> conn["worker"],
                       retry_policy |-> RetryPolicyOf(id),
                       body_raised |-> body_raises, events |-> r.events,
                       outcome |-> r.outcome, error |-> r.error,
                       retry_calls |-> r.retry_calls, broker |-> r.broker]
    /\ UNCHANGED <<tasks, posts, brokkolys>>

Next ==
    \/ \E req \in Requests, k \in 0..MaxFails :
          Post(req.queue_name, req.task_name, req.payload, k)
    \/ \E id \in DOMAIN msgs : Deliver(id)

Spec == Init /\ [][Next]_vars

---------------------------------------------------------------------------
(* Properties of the delivery log and of handle.                           *)

Handled == last.op = "handle"
Posted == last.op = "post"
EndsWith(events, tail) ==
    /\ Len(events) >= Len(tail)
    /\ SubSeq(events, Len(events) - Len(tail) + 1, Len(events)) = tail
\* the position of the first call of e in events, 0 when there is none
Position(events, e) ==
    IF \E i \in 1..Len(events) : events[i] = e
    THEN CHOOSE i \in 1..Len(events) :
            events[i] = e /\ \A j \in 1..(i - 1) : events[j] # e
    ELSE 0

\* C1: in every state, a delivery log entry is marked completed if and only
\* if the broker will run no further attempt of its task, whatever the
\* outcome of handle was (success, failure without a retry policy, retry
\* accepted, retries exhausted).
C1_CompletedIffNoFurtherAttempt ==
    \A id \in DOMAIN msgs :
        (id \in DOMAIN log /\ log[id].completed) <=> (msgs[id].state # "queued")

\* C2: for a message run under a retry policy, complete() is invoked at most
\* once over all attempts and only on the last attempt that runs; a task that
\* fails twice and then succeeds under a policy allowing at least 2 retries
\* has complete() invoked exactly once, on its third attempt.
C2_CompleteOnceOnLastAttempt ==
    \A id \in DOMAIN msgs :
        RetryPolicyOf(id).kind # "none" =>
            /\ Len(msgs[id].complete_at) <= 1
            /\ Len(msgs[id].complete_at) = 1 =>
                  /\ msgs[id].state # "queued"
                  /\ msgs[id].complete_at[1] = msgs[id].retries
            /\ (/\ RetryPolicyOf(id).max_retries >= 2
                /\ msgs[id].fails = 2
                /\ msgs[id].state # "queued") => msgs[id].complete_at = <<2>>

\* C3: a task that always fails under a retry policy with max_retries = 1
\* has complete() invoked exactly once over the first attempt and the retry,
\* in the attempt where the broker's retry primitive reports exhaustion, and
\* commit and close follow it.
C3_ExhaustionCompletesOnce ==
    \A id \in DOMAIN msgs :
        (/\ RetryPolicyOf(id).kind # "none"
         /\ RetryPolicyOf(id).max_retries = 1
         /\ msgs[id].fails >= 2
         /\ msgs[id].state # "queued") =>
            /\ msgs[id].complete_at = <<1>>
            /\ (Handled /\ last.id = id) =>
                  /\ last.broker = "exhausted"
                  /\ EndsWith(last.events, <<"complete", "commit", "close">>)

\* C4: when the task body raises under a retry policy and the broker's retry
\* primitive reports exhaustion, handle surfaces the original task error to
\* the broker: the invocation ends by raising it, not by returning.
C4_ExhaustionSurfacesTaskError ==
    (Handled /\ last.body_raised /\ last.retry_policy.kind # "none"
        /\ last.broker = "exhausted") =>
            (last.outcome = "raise" /\ last.error = "TaskError")

\* C5: every exit path of a handle invocation closes the connection exactly
\* once before control leaves handle, and the exception path without a retry
\* policy commits and closes like the success path before the exception
\* propagates.
C5_EveryExitClosesOnce ==
    Handled =>
        /\ Count(last.events, "close") = 1
        /\ conn["worker"] = "closed"
        /\ (last.body_raised /\ last.retry_policy.kind = "none") =>
              EndsWith(last.events, <<"commit", "close">>)

\* C6: when the task body raises under a retry policy and the broker accepts
\* the reschedule, the invocation does not call complete(), does not commit,
\* closes the connection and re-raises the Retry signal; the log entry stays
\* open and the message stays with the broker.
C6_AcceptedRetryLeavesEntryOpen ==
    (Handled /\ last.body_raised /\ last.broker = "accepted") =>
        /\ Count(last.events, "complete") = 0
        /\ Count(last.events, "commit") = 0
        /\ Count(last.events, "close") = 1
        /\ conn["worker"] = "closed"
        /\ last.outcome = "raise" /\ last.error = "Retry"
        /\ ~log[last.id].completed
        /\ msgs[last.id].state = "queued"

C6_Witness ==
    /\ Handled /\ last.body_raised /\ last.broker = "accepted"
    /\ last.attempt = 1

\* C7: when the task body raises and no retry policy is configured, handle
\* propagates that exception, never invokes the retry primitive and leaves
\* the delivery log entry open.
C7_NoPolicyPropagates ==
    (Handled /\ last.body_raised /\ last.retry_policy.kind = "none") =>
        /\ last.outcome = "raise" /\ last.error = "TaskError"
        /\ last.retry_calls = NoCall
        /\ Count(last.events, "retry") = 0
        /\ Count(last.events, "complete") = 0
        /\ ~log[last.id].completed
        /\ msgs[last.id].state = "failed"

C7_Witness ==
    Handled /\ last.body_raised /\ last.retry_policy.kind = "none"

\* C8: whenever the task body raises and a retry policy is configured (either
\* built-in policy, with or without a ceiling), handle invokes the retry
\* primitive exactly once, with the policy's countdown for the current
\* attempt, the policy's max_retries and the raised error; the entry is
\* completed in that invocation only if the broker did not accept.
C8_RetryInvokedOnce ==
    (Handled /\ last.body_raised /\ last.retry_policy.kind # "none") =>
        /\ Len(last.retry_calls) = 1
        /\ Count(last.events, "retry") = 1
        /\ last.retry_calls[1].max_retries = last.retry_policy.max_retries
        /\ last.retry_calls[1].exc = "TaskError"
        /\ ~Countdown(last.retry_policy, last.attempt).raised
        /\ last.retry_calls[1].countdown =
              Countdown(last.retry_policy, last.attempt).value
        /\ Count(last.events, "complete") > 0 => last.broker # "accepted"

ValidationErrors == {"Missing required filed", "Invalid type", "PreprocessorError"}

\* C9: when a preprocessor's schema check, a preprocessor, or the task's
\* schema check fails in on_post, no delivery log entry has been created and
\* nothing has been submitted to the broker for that request.
C9_ValidationFailureCreatesNothing ==
    (Posted /\ last.error \in ValidationErrors) =>
        /\ Count(last.events, "create") = 0
        /\ last.created = {}
        /\ ~last.submitted
        /\ Count(last.events, "apply_async") = 0

\* C10: for every accepted submission the entry is created, then the broker
\* submission carrying that entry's id is made, then eliminate runs for the
\* same (queue, task), then the 202 is set; and no attempt of a message
\* starts before its submission: every message the broker holds or has run
\* is the committed log entry of its (queue, task).
C10_SubmissionOrder ==
    /\ (Posted /\ last.submitted) =>
          /\ 0 < Position(last.events, "create")
          /\ Position(last.events, "create") < Position(last.events, "apply_async")
          /\ Position(last.events, "apply_async") < Position(last.events, "eliminate")
          /\ Position(last.events, "eliminate") < Position(last.events, "ack")
          /\ \A e \in {"create", "apply_async", "eliminate", "ack"} :
                Count(last.events, e) = 1
          /\ last.created = {last.submission.id}
          /\ last.eliminated = <<last.queue_name, last.task_name>>
          /\ last.response = <<"commit", "close">>
    /\ \A id \in DOMAIN msgs :
          /\ id \in DOMAIN log
          /\ log[id].queue_name = msgs[id].queue_name
          /\ log[id].task_name = msgs[id].task_name
    /\ Handled => last.id \in DOMAIN msgs

C10_Witness ==
    /\ Posted /\ last.submitted
    /\ last.submission.countdown = 1
    /\ last.submission.id \in DOMAIN msgs

---------------------------------------------------------------------------
(* Properties of Producer.on_post.                                         *)

Accepted == Posted /\ last.submitted
RegisteredTarget ==
    /\ last.queue_name \in DOMAIN tasks
    /\ last.task_name \in DOMAIN tasks[last.queue_name]
NothingDone == last.created = {} /\ ~last.submitted /\ Count(last.events, "apply_async") = 0

\* C11: for every accepted submission the log entry stores the original
\* message as received, before any preprocessor ran; the broker receives the
\* message folded through the preprocessors and validated against the task's
\* schema, the id of the entry just created as metadata, and the payload's
\* delay (0 when absent) as countdown.
C11_LogKeepsOriginalBrokerGetsProcessed ==
    Accepted =>
        LET id == last.submission.id
            entry == tasks[last.queue_name][last.task_name]
        IN  /\ last.created = {id}
            /\ log[id].message = Dumps(last.message)
            /\ Loads(log[id].message) = last.message
            /\ log[id].queue_name = last.queue_name
            /\ log[id].task_name = last.task_name
            /\ ~log[id].completed
            /\ msgs[id].args =
                  _validate(_recurse(last.message, entry.preprocessors).message,
                            entry.validation).message
            /\ DOMAIN msgs[id].args = {entry.validation[i][1] : i \in 1..Len(entry.validation)}
            /\ msgs[id].countdown = IF last.body.hasDelay THEN last.body.delay ELSE 0

C11_Witness ==
    /\ Accepted
    /\ last.task_name = "task_for_preprocessor_test"
    /\ last.message = NumberOnly
    /\ msgs[last.submission.id].args = [n \in {"text"} |-> StrV(1)]

\* C12: on_post checks the queue and the task before it reads the payload: an
\* unregistered queue gives 'Undefined queue', an unregistered task of a
\* registered queue gives 'Undefined task', and in both cases the payload is
\* not read, no log entry is created and nothing is submitted.
C12_LookupBeforePayload ==
    (Posted /\ ~RegisteredTarget) =>
        /\ last.error = IF last.queue_name \notin DOMAIN tasks
                        THEN "Undefined queue" ELSE "Undefined task"
        /\ Count(last.events, "read") = 0
        /\ last.events = << >>
        /\ NothingDone
        /\ last.response = <<"rollback", "close">>

C12_Witness ==
    /\ Posted /\ last.error = "Undefined task"
    /\ last.body.kind = "empty"

\* C13: for a registered (queue, task), an empty payload fails with 'Empty
\* payload', a payload that is not JSON with 'Payload is not a JSON', and
\* every JSON payload without a top-level 'message' field (an object without
\* the key, an array, a string, a number, null) with 'Invalid JSON'; in all
\* three cases no log entry is created and nothing is submitted.
C13_PayloadErrors ==
    (Posted /\ RegisteredTarget) =>
        /\ last.body.kind = "empty" => (last.error = "Empty payload" /\ NothingDone)
        /\ last.body.kind = "notjson" =>
              (last.error = "Payload is not a JSON" /\ NothingDone)
        /\ (last.body.kind = "json"
                /\ ~(last.body.type = "object" /\ last.body.hasMessage)) =>
              (last.error = "Invalid JSON" /\ NothingDone)

---------------------------------------------------------------------------
(* _validate on its own: every message over a few fields against every     *)
(* schema of a bounded length.                                             *)

\* entries of a schema
MaxSchemaLen == 2

FieldNames == {"text", "number", "extra"}
FieldValues == {IntV(1), StrV(1)}
Messages == UNION {[names -> FieldValues] : names \in SUBSET FieldNames}
SchemaEntries == {<<n, t>> : n \in {"text", "number"}, t \in {"int", "str", "any"}}
Schemas == UNION {[1..k -> SchemaEntries] : k \in 0..MaxSchemaLen}

Idle ==
    /\ tasks = StartupRegistry
    /\ log = NoRows
    /\ nextId = 1
    /\ conn = [t \in Threads |-> "none"]
    /\ msgs = NoMessages
    /\ posts = 0
    /\ last = [op |-> "none"]
    /\ brokkolys = <<TestQueue>>

\* one call of _validate(message, validation)
Validate(message, validation) ==
    /\ last.op = "none"
    /\ last' = [op |-> "validate", message |-> message, validation |-> validation,
                result |-> _validate(message, validation)]
    /\ UNCHANGED <<tasks, log, nextId, conn, msgs, posts, brokkolys>>

NextValidate == \E m \in Messages, v \in Schemas : Validate(m, v)

SpecValidate == Idle /\ [][NextValidate]_vars

Validated == last.op = "validate"
\* schema entry i rejects the message
EntryFails(message, validation, i) ==
    \/ validation[i][1] \notin DOMAIN message
    \/ /\ validation[i][2] # "any"
       /\ message[validation[i][1]].t # validation[i][2]
SchemaNames(validation) == {validation[i][1] : i \in 1..Len(validation)}

\* C14: when every name of the schema is in the message with a value of the
\* declared type (or the type is 'any'), _validate returns the mapping whose
\* keys are exactly the schema's names and whose values are the message's;
\* fields of the message outside the schema are absent from the result.
C14_ValidateKeepsSchemaFields ==
    (Validated /\ \A i \in 1..Len(last.validation) :
                     ~EntryFails(last.message, last.validation, i)) =>
        /\ last.result.ok
        /\ DOMAIN last.result.message = SchemaNames(last.validation)
        /\ \A n \in SchemaNames(last.validation) :
              last.result.message[n] = last.message[n]

C14_Witness ==
    /\ Validated /\ last.result.ok
    /\ last.validation = << <<"text", "str">>, <<"number", "int">> >>
    /\ DOMAIN last.message = FieldNames
    /\ DOMAIN last.result.message = {"text", "number"}

\* C15: when validation fails, _validate reports one error, that of the first
\* schema entry in declaration order that fails: 'missing required field'
\* with the entry's name when the name is absent, otherwise 'invalid type'
\* with the entry's name and expected type; later failures are not reported.
C15_FirstFailureReported ==
    Validated =>
        LET failing == {i \in 1..Len(last.validation) :
                           EntryFails(last.message, last.validation, i)}
        IN  /\ last.result.ok <=> failing = {}
            /\ failing # {} =>
                  LET k == CHOOSE i \in failing : \A j \in failing : i <= j
                      name == last.validation[k][1]
                  IN  IF name \notin DOMAIN last.message
                      THEN /\ last.result.error = "Missing required filed"
                           /\ last.result.arg_name = name
                      ELSE /\ last.result.error = "Invalid type"
                           /\ last.result.arg_name = name
                           /\ last.result.arg_type = last.validation[k][2]

C15_Witness ==
    /\ Validated /\ ~last.result.ok
    /\ Cardinality({i \in 1..Len(last.validation) :
                       EntryFails(last.message, last.validation, i)}) = 2
    /\ last.validation[1][1] # last.validation[2][1]
    /\ last.result.error = "Invalid type"

---------------------------------------------------------------------------
(* Producer._recurse on its own: every message through every chain of a    *)
(* bounded length.                                                         *)

\* preprocessors of a chain
MaxChain == 2

Preprocessors == {"number_to_text", "text_to_number", "preprocessor_raises"}
Processor(f) == [func |-> f, validation |-> _prepare_validation(f)]
Chains == UNION {[1..k -> {Processor(f) : f \in Preprocessors}] : k \in 0..MaxChain}

\* one call of Producer._recurse(message, preprocessors)
Recurse(message, preprocessors) ==
    /\ last.op = "none"
    /\ last' = [op |-> "recurse", message |-> message, preprocessors |-> preprocessors,
                result |-> _recurse(message, preprocessors)]
    /\ UNCHANGED <<tasks, log, nextId, conn, msgs, posts, brokkolys>>

NextRecurse == \E m \in Messages, c \in Chains : Recurse(m, c)

SpecRecurse == Idle /\ [][NextRecurse]_vars

Recursed == last.op = "recurse"
\* what call i of the chain was given: the original message, then what the
\* call before returned
InputOf(i) ==
    IF i = 1 THEN last.message
    ELSE CallPreprocessor(last.result.calls[i - 1].func,
                          last.result.calls[i - 1].args).message

\* C16: _recurse applies the preprocessors in registration order: at each
\* step the current message is validated against that preprocessor's schema,
\* the preprocessor is called once with the validated fields and its return
\* value is the input of the next step; an empty chain returns the message
\* unchanged; after a failure at step k no later preprocessor is called.
C16_ChainInOrder ==
    Recursed =>
        LET calls == last.result.calls
            chain == last.preprocessors
            n == Len(calls)
        IN  /\ n <= Len(chain)
            /\ \A i \in 1..n :
                  /\ calls[i].func = chain[i].func
                  /\ _validate(InputOf(i), chain[i].validation).ok
                  /\ calls[i].args = _validate(InputOf(i), chain[i].validation).message
            /\ chain = << >> => (last.result.ok /\ last.result.message = last.message)
            /\ (last.result.ok /\ chain # << >>) =>
                  /\ n = Len(chain)
                  /\ last.result.message =
                        CallPreprocessor(calls[n].func, calls[n].args).message
            /\ ~last.result.ok =>
                  \/ /\ n < Len(chain)
                     /\ ~_validate(InputOf(n + 1), chain[n + 1].validation).ok
                     /\ last.result.error =
                           _validate(InputOf(n + 1), chain[n + 1].validation).error
                     /\ \A i \in 1..n : CallPreprocessor(calls[i].func, calls[i].args).ok
                  \/ /\ n >= 1
                     /\ ~CallPreprocessor(calls[n].func, calls[n].args).ok
                     /\ last.result.error = "PreprocessorError"
                     /\ \A i \in 1..(n - 1) :
                           CallPreprocessor(calls[i].func, calls[i].args).ok

C16_Witness ==
    /\ Recursed /\ last.result.ok
    /\ Len(last.result.calls) = 2
    /\ last.result.calls[1].func = "number_to_text"
    /\ last.result.calls[2].func = "text_to_number"
    /\ last.result.calls[2].args = [n \in {"text"} |-> StrV(1)]
    /\ last.result.message # last.message

---------------------------------------------------------------------------
(* The countdown of the two built-in policies on its own.                  *)

\* the largest retry_count asked for
MaxAttempt == 9

\* the values of max_wait_seconds: not configured, or a ceiling
Ceilings == {None, 0, 1, 2, 5, 8, 80}
Policies ==
    {FibonacciBackoff(1, c) : c \in Ceilings} \cup {ExponentialBackoff(1, c) : c \in Ceilings}

\* one call of policy.countdown(retry_count, error)
Backoff(policy, retry_count) ==
    /\ last.op = "none"
    /\ last' = [op |-> "countdown", policy |-> policy, retry_count |-> retry_count,
                result |-> Countdown(policy, retry_count)]
    /\ UNCHANGED <<tasks, log, nextId, conn, msgs, posts, brokkolys>>

NextBackoff == \E p \in Policies, i \in 0..MaxAttempt : Backoff(p, i)

SpecBackoff == Idle /\ [][NextBackoff]_vars

CountedDown(kind) == last.op = "countdown" /\ last.policy.kind = kind

RECURSIVE Term(_)
\* the i-th term of 1, 2, 3, 5, 8, 13, ...
Term(i) == IF i = 0 THEN 1 ELSE IF i = 1 THEN 2 ELSE Term(i - 1) + Term(i - 2)

\* C17: FibonacciBackoff.countdown(i) without a ceiling is the i-th term of
\* 1, 2, 3, 5, 8, ...; with a ceiling c it is the term when the term is
\* below c and c otherwise, so it is never greater than c.
C17_FibonacciCountdown ==
    CountedDown("fib") =>
        LET c == last.policy.max_wait_seconds
            term == Term(last.retry_count)
        IN  /\ ~last.result.raised
            /\ c = None => last.result.value = term
            /\ c # None =>
                  /\ last.result.value = (IF term < c THEN term ELSE c)
                  /\ last.result.value <= c

\* C18: ExponentialBackoff.countdown(a) is 2^(a+1) when no ceiling is
\* configured or 2^(a+1) does not exceed the ceiling, and the ceiling when
\* 2^(a+1) exceeds it, so it is never greater than a configured ceiling.
C18_ExponentialCountdown ==
    CountedDown("exp") =>
        LET c == last.policy.max_wait_seconds
            wait == 2 ^ (last.retry_count + 1)
        IN  /\ ~last.result.raised
            /\ (c = None \/ wait <= c) => last.result.value = wait
            /\ (c # None /\ wait > c) => last.result.value = c

---------------------------------------------------------------------------
(* The registry on its own: instances are constructed and tasks registered *)
(* in any order, starting from the empty _tasks of a fresh process.        *)

\* Brokkoly instances constructed in one behaviour
MaxInstances == 3

QueueNames == {<<"q">>, <<"q", "_">>, <<"_">>, <<"_", "q">>}
TaskNames == {"task_for_test", "task_fib1"}
RetryPolicies == {NoPolicy, FibonacciBackoff(1, None)}

Fresh ==
    /\ tasks = [q \in {} |-> NoTasks]
    /\ log = NoRows
    /\ nextId = 1
    /\ conn = [t \in Threads |-> "none"]
    /\ msgs = NoMessages
    /\ posts = 0
    /\ last = [op |-> "none"]
    /\ brokkolys = << >>

\* brokkoly.Brokkoly(name, broker)
NewBrokkoly(name) ==
    /\ Len(brokkolys) < MaxInstances
    /\ LET made == BrokkolyInit(tasks, name)
       IN  /\ tasks' = made.reg
           /\ brokkolys' = IF made.raised THEN brokkolys ELSE Append(brokkolys, name)
           /\ last' = [op |-> "init", name |-> name, raised |-> made.raised]
    /\ UNCHANGED <<log, nextId, conn, msgs, posts>>

\* instance k: brokkoly.task(retry_policy=retry_policy)(f)
Register(k, f, retry_policy) ==
    /\ LET done == TaskWrapper(tasks, Brokkoly(brokkolys[k], k), f, << >>, retry_policy)
       IN  /\ tasks' = done.reg
           /\ last' = [op |-> "task", instance |-> k, f |-> f,
                       retry_policy |-> retry_policy, raised |-> done.raised]
    /\ UNCHANGED <<log, nextId, conn, msgs, posts, brokkolys>>

\* the lookup of Producer.on_post and Producer.on_get (lines 206 and 235)
Lookup(queue_name, task_name) ==
    /\ LET looked == _validate_queue_and_task(tasks, queue_name, task_name)
       IN  /\ tasks' = looked.reg
           /\ last' = [op |-> "lookup", queue_name |-> queue_name,
                       task_name |-> task_name, error |-> looked.error]
    /\ UNCHANGED <<log, nextId, conn, msgs, posts, brokkolys>>

\* TaskListResource.on_get
ListTasks(queue_name) ==
    /\ LET listed == _list_task_name(tasks, queue_name)
       IN  /\ tasks' = listed.reg
           /\ last' = [op |-> "list_tasks", queue_name |-> queue_name,
                       error |-> IF listed.raised THEN "Undefined queue" ELSE "none",
                       task_names |-> listed.task_names]
    /\ UNCHANGED <<log, nextId, conn, msgs, posts, brokkolys>>

\* QueueListResource.on_get
ListQueues ==
    /\ LET listed == _list_queue_name(tasks)
       IN  /\ tasks' = listed.reg
           /\ last' = [op |-> "list_queues", queue_names |-> listed.queue_names]
    /\ UNCHANGED <<log, nextId, conn, msgs, posts, brokkolys>>

NextRegistry ==
    \/ \E name \in QueueNames : NewBrokkoly(name)
    \/ \E k \in 1..Len(brokkolys), f \in TaskNames, p \in RetryPolicies : Register(k, f, p)
    \/ \E q \in QueueNames, f \in TaskNames : Lookup(q, f)
    \/ \E q \in QueueNames : ListTasks(q)
    \/ ListQueues

SpecRegistry == Fresh /\ [][NextRegistry]_vars

\* the step is a registration of task f through an instance of queue q
Registering(q, f) ==
    /\ last'.op = "task"
    /\ brokkolys' = brokkolys
    /\ brokkolys[last'.instance] = q
    /\ last'.f = f

\* C19: registering a task name that already exists under the same queue
\* name raises BrokkolyError, through whichever instance of that queue name,
\* and leaves the registry as it was; a name not yet under that queue name
\* is accepted and stored, also when another queue has a task of that name.
C19_DuplicateRegistrationRejected ==
    [][\A q \in QueueNames, f \in TaskNames :
          Registering(q, f) =>
              IF f \in DOMAIN tasks[q]
              THEN last'.raised /\ tasks' = tasks
              ELSE /\ ~last'.raised
                   /\ DOMAIN tasks' = DOMAIN tasks
                   /\ DOMAIN tasks'[q] = (DOMAIN tasks[q]) \cup {f}
                   /\ tasks'[q][f].retry_policy = last'.retry_policy
                   /\ tasks'[q][f].celery = last'.instance
                   /\ \A r \in DOMAIN tasks :
                         \A t \in DOMAIN tasks[r] : tasks'[r][t] = tasks[r][t]]_vars

C19_Witness ==
    /\ last.op = "task" /\ last.raised
    /\ LET q == brokkolys[last.instance]
       IN  /\ tasks[q][last.f].celery # last.instance
           /\ tasks[q][last.f].retry_policy # last.retry_policy
           /\ \E r \in DOMAIN tasks : r # q /\ last.f \in DOMAIN tasks[r]

\* C20: constructing a Brokkoly whose queue name starts with '_' raises
\* BrokkolyError and leaves the registry as it was: no queue entry for the
\* name and no task is added.
C20_ReservedNameRejected ==
    [][(last'.op = "init" /\ StartsWithUnderscore(last'.name)) =>
          /\ last'.raised
          /\ tasks' = tasks
          /\ last'.name \notin DOMAIN tasks'
          /\ brokkolys' = brokkolys]_vars

C20_Witness ==
    /\ last.op = "init" /\ last.raised
    /\ StartsWithUnderscore(last.name) /\ Len(last.name) > 1
    /\ last.name \notin DOMAIN tasks
    /\ \E q \in DOMAIN tasks : tasks[q] # NoTasks

---------------------------------------------------------------------------
(* The DBManager middleware on the web thread: for a request that matches  *)
(* a route, process_resource, the resource handler, process_response; for  *)
(* a request that matches none, process_response alone.                    *)

\* rows the resource handlers write in one behaviour
MaxWrites == 2

ConnectionCalls == {"commit", "rollback", "close"}
Durable == [rows |-> log, next |-> nextId]

\* falcon found a route: DBManager.process_resource
ProcessResource ==
    /\ last.op \in {"none", "process_response"}
    /\ LET st == ApplyEvents(process_resource, 1, 0,
                    [durable |-> Durable, view |-> Durable, conn |-> conn["web"]])
       IN  /\ conn' = [conn EXCEPT !["web"] = st.conn]
           /\ last' = [op |-> "process_resource", entered |-> conn["web"]]
    /\ UNCHANGED <<tasks, log, nextId, msgs, posts, brokkolys>>

\* the resource handler of the route: it writes a row or not, and returns
\* or raises
Resource(writes, req_succeeded) ==
    /\ last.op = "process_resource"
    /\ writes => nextId <= MaxWrites
    /\ last' = [op |-> "resource", req_succeeded |-> req_succeeded,
                view |-> IF writes
                         THEN MessageLogCreate(Durable, TestQueue, "task_for_test",
                                               Dumps(NumberOnly))
                         ELSE Durable]
    /\ UNCHANGED <<tasks, log, nextId, conn, msgs, posts, brokkolys>>

\* DBManager.process_response, after the resource handler or, for a request
\* without a route, on whatever connection the thread was left with
ProcessResponse(raising) ==
    /\ last.op \in {"none", "process_response", "resource"}
    /\ LET routed == last.op = "resource"
           req_succeeded == routed /\ last.req_succeeded
           r == DBManager_process_response(conn["web"], req_succeeded, raising)
           st == ApplyEvents(r.done, 1, 0,
                    [durable |-> Durable,
                     view |-> IF routed THEN last.view ELSE Durable,
                     conn |-> conn["web"]])
       IN  /\ log' = st.durable.rows
           /\ nextId' = st.durable.next
           /\ conn' = [conn EXCEPT !["web"] = st.conn]
           /\ last' = [op |-> "process_response", routed |-> routed,
                       connection |-> conn["web"], req_succeeded |-> req_succeeded,
                       raising |-> raising, calls |-> r.calls, raised |-> r.raised,
                       committed |-> (DOMAIN st.durable.rows) \ (DOMAIN log)]
    /\ UNCHANGED <<tasks, msgs, posts, brokkolys>>

NextMiddleware ==
    \/ ProcessResource
    \/ \E writes \in BOOLEAN, req_succeeded \in BOOLEAN : Resource(writes, req_succeeded)
    \/ \E raising \in SUBSET ConnectionCalls : ProcessResponse(raising)

SpecMiddleware == Idle /\ [][NextMiddleware]_vars

Responding == last.op = "process_response"

\* C21: process_response does nothing when the thread has no connection;
\* after a request that succeeded it commits, then closes, and never rolls
\* back; after one that failed it rolls back, then closes, and never
\* commits, and a ProgrammingError of rollback or close does not leave it;
\* commit and rollback are never both called for one request.
C21_CommitOrRollbackThenClose ==
    Responding =>
        LET calls == last.calls
        IN  /\ last.connection = "none" =>
                  calls = << >> /\ last.raised = "none" /\ last.committed = {}
            /\ (last.connection # "none" /\ last.req_succeeded) =>
                  /\ Count(calls, "rollback") = 0
                  /\ calls[1] = "commit"
                  /\ "commit" \notin last.raising => calls = <<"commit", "close">>
            /\ (last.connection # "none" /\ ~last.req_succeeded) =>
                  /\ Count(calls, "commit") = 0
                  /\ calls[1] = "rollback"
                  /\ "rollback" \notin last.raising => calls = <<"rollback", "close">>
                  /\ last.raised = "none"
                  /\ last.committed = {}
            /\ Count(calls, "commit") = 0 \/ Count(calls, "rollback") = 0

C21_Witness ==
    /\ Responding /\ ~last.routed
    /\ last.connection = "closed"
    /\ "rollback" \in last.raising
    /\ last.calls = <<"rollback">>
    /\ last.raised = "none"
    /\ log # NoRows

---------------------------------------------------------------------------
(* Reconnect before use, in both handling cycles of Spec.                  *)

\* the calls that use the thread's connection or the message log
Uses == {"get", "get_by_id", "create", "eliminate", "complete",
         "commit", "rollback", "close"}

\* the state of the thread's connection just before call i of the cycle
ConnectionBefore(cycle, i, entered) ==
    ApplyEvents(SubSeq(cycle, 1, i - 1), 1, 0,
                [durable |-> [rows |-> NoRows, next |-> 1],
                 view |-> [rows |-> NoRows, next |-> 1], conn |-> entered]).conn

ReconnectedBeforeUse(cycle, entered) ==
    /\ cycle # << >>
    /\ cycle[1] = "reconnect"
    /\ \A i \in 1..Len(cycle) :
          cycle[i] \in Uses =>
              /\ \E j \in 1..(i - 1) : cycle[j] = "reconnect"
              /\ ConnectionBefore(cycle, i, entered) = "open"

\* C22: in every handling cycle reconnect() is called before any use of the
\* connection or of the message log: handle reconnects first on every
\* attempt, whatever state the thread's connection was left in, and
\* process_resource reconnects before the resource handler of a request.
C22_ReconnectBeforeUse ==
    /\ Handled => ReconnectedBeforeUse(last.events, last.entered)
    /\ Posted =>
          /\ last.resource = <<"reconnect">>
          /\ ReconnectedBeforeUse(last.resource \o last.events \o last.response,
                                  last.entered)

C22_Witness ==
    /\ Handled
    /\ last.attempt >= 1
    /\ last.entered = "closed"
    /\ Count(last.events, "complete") = 1

---------------------------------------------------------------------------
(* Reads of the registry, under SpecRegistry.                              *)

Reads == {"lookup", "list_tasks", "list_queues"}
Constructed == {brokkolys[k] : k \in 1..Len(brokkolys)}

\* C23: the lookups of on_post and on_get and the two listings never change
\* the registry: the known queues are those of the Brokkoly instances
\* constructed, a read leaves every queue and task as it was, and a queue
\* that was looked up while unknown is still unknown to a later read.
C23_ReadsLeaveRegistry ==
    /\ [](DOMAIN tasks = Constructed)
    /\ [](last.op = "list_queues" => last.queue_names = Constructed)
    /\ []((last.op \in {"lookup", "list_tasks"} /\ last.queue_name \notin Constructed)
             => last.error = "Undefined queue")
    /\ [][last'.op \in Reads => tasks' = tasks]_vars

C23_Witness ==
    /\ last.op = "lookup"
    /\ last.error = "Undefined queue"
    /\ last.queue_name \notin DOMAIN tasks
    /\ ~StartsWithUnderscore(last.queue_name)
    /\ \E q \in DOMAIN tasks : last.task_name \in DOMAIN tasks[q]

---------------------------------------------------------------------------
(* handle when a call of its first try block raises after f returned:      *)
(* message_log.complete(), connection.commit() or connection.close().      *)

TryCalls == <<"complete", "commit", "close">>
TryFaults == {"complete", "commit", "close"}

\* lines 85-87 up to the call that raises, and those of them that returned
TriedUpTo(raising) ==
    LET n == CHOOSE i \in 1..Len(TryCalls) : TryCalls[i] = raising
    IN  [calls |-> SubSeq(TryCalls, 1, n), done |-> SubSeq(TryCalls, 1, n - 1)]

\* the calls of an invocation after HandleEntry
AfterEntry(events) == SubSeq(events, Len(HandleEntry) + 1, Len(events))

\* handle(celery_task, meta, args) when f returns and the call `raising` of
\* lines 85-87 raises: `except Exception` (line 88) catches it like an error
\* of f, so without a policy it is re-raised (line 90) and with one the
\* second try block (lines 95-109) runs with error = that exception
handle_after_return(retry_policy, retries, raising) ==
    LET tried == TriedUpTo(raising)
        retried == HandleRetry(retry_policy, retries)
    IN  IF retry_policy.kind = "none"
        THEN [events |-> HandleEntry \o tried.calls,
              done |-> HandleEntry \o tried.done,
              outcome |-> "raise", error |-> "DatabaseError",
              retry_calls |-> NoCall, broker |-> "not_called"]
        ELSE [events |-> HandleEntry \o tried.calls \o AfterEntry(retried.events),
              done |-> HandleEntry \o tried.done \o AfterEntry(retried.events),
              outcome |-> retried.outcome, error |-> retried.error,
              retry_calls |-> [i \in 1..Len(retried.retry_calls) |->
                                  [retried.retry_calls[i] EXCEPT !.exc = "DatabaseError"]],
              broker |-> retried.broker]

\* The broker runs handle for a message it holds and, unless `raising` is
\* "none", the call `raising` fails once after f returned.
DeliverFaulted(id, raising) ==
    /\ msgs[id].state = "queued"
    /\ raising # "none" => msgs[id].retries >= msgs[id].fails
    /\ LET m == msgs[id]
           body_raises == m.retries < m.fails
           plain == handle(RetryPolicyOf(id), m.retries, body_raises)
           r == IF raising = "none"
                THEN [events |-> plain.events, done |-> plain.events,
                      outcome |-> plain.outcome, error |-> plain.error,
                      retry_calls |-> plain.retry_calls, broker |-> plain.broker]
                ELSE handle_after_return(RetryPolicyOf(id), m.retries, raising)
           st == ApplyEvents(r.done, 1, id,
                    [durable |-> [rows |-> log, next |-> nextId],
                     view |-> [rows |-> log, next |-> nextId],
                     conn |-> conn["worker"]])
       IN  /\ log' = st.durable.rows
           /\ nextId' = st.durable.next
           /\ conn' = [conn EXCEPT !["worker"] = st.conn]
           /\ msgs' = [msgs EXCEPT ![id] =
                        [m EXCEPT
                          !.retries = IF r.error = "Retry" THEN m.retries + 1
                                      ELSE m.retries,
                          !.state = IF r.error = "Retry" THEN "queued"
                                    ELSE IF r.outcome = "return" THEN "succeeded"
                                    ELSE "failed",
                          !.complete_at =
                              m.complete_at \o
                                  [i \in 1..Count(r.events, "complete") |-> m.retries]]]
           /\ last' = [op |-> "handle", id |-> id, attempt |-> m.retries,
                       entered |-> conn["worker"],
                       retry_policy |-> RetryPolicyOf(id),
                       body_raised |-> body_raises, raising |-> raising,
                       events |-> r.events, outcome |-> r.outcome, error |-> r.error,
                       retry_calls |-> r.retry_calls, broker |-> r.broker]
    /\ UNCHANGED <<tasks, posts, brokkolys>>

NextFaults ==
    \/ \E req \in Requests, k \in 0..MaxFails :
          Post(req.queue_name, req.task_name, req.payload, k)
    \/ \E id \in DOMAIN msgs, raising \in TryFaults \cup {"none"} :
          DeliverFaulted(id, raising)

SpecFaults == Init /\ [][NextFaults]_vars

\* C24: under a retry policy, when the body of the task returned normally
\* the retry primitive is not invoked, whether or not the complete(),
\* commit() or close() that follow fail; the message is not handed to a
\* further attempt and complete() is invoked at most once in the invocation.
C24_RetryOnlyWhenBodyRaised ==
    (Handled /\ last.retry_policy.kind # "none" /\ ~last.body_raised) =>
        /\ Count(last.events, "retry") = 0
        /\ last.retry_calls = NoCall
        /\ msgs[last.id].state # "queued"
        /\ Count(last.events, "complete") <= 1

====
